---------------------------- MODULE Spec2Model ----------------------------
(***************************************************************************)
(* Model of the Japanese name validator: the Hepburn romanizer             *)
(* (validators/hepburn_converter.py), the kanji reading resolver with its  *)
(* module-level surname shard cache (validators/kanji_reader.py) and the   *)
(* name matcher (validators/name_matcher.py).                              *)
(*                                                                         *)
(* Every Python str is modelled as the sequence of its Unicode code        *)
(* points, so that ord(), chr(), upper(), slicing and concatenation are    *)
(* the arithmetic and sequence operations the code performs.               *)
(***************************************************************************)
EXTENDS Integers, Sequences, FiniteSets, TLC

VARIABLES
    hash_seed,      \* the process's string hash seed: fixes the order of list(set(..))
    surname_cache,  \* kanji_reader._surname_cache: file key -> {kanji -> readings}
    fs_log,         \* per file key: how often the shard file was probed and opened
    call_reads,     \* shard files opened during the call that ended last
    pc,             \* "idle" between calls, "returned" when a call has ended
    call,           \* the arguments of the call that ended last
    result,         \* what that call returned or raised
    text,           \* argument of HepburnConverter.convert
    cpc,            \* position of the converter client
    candidates,     \* convert(text)
    kata_candidates,\* convert(katakana equivalent of text)
    romaji,         \* argument of NameMatcher._normalize_romaji
    npc,            \* position of the normalizer client
    normalized,     \* _normalize_romaji(romaji), and of that again
    kanji_arg,      \* argument of KanjiReader._decompose_and_read
    dpc,            \* position of the decomposition client
    inferred,       \* _decompose_and_read(kanji_arg)
    threads,        \* per thread running get_readings: its position and locals
    other_candidates \* convert(text) in a process with another hash seed

vars == <<hash_seed, surname_cache, fs_log, call_reads, pc, call, result, text, cpc,
          candidates, kata_candidates, romaji, npc, normalized,
          kanji_arg, dpc, inferred, threads, other_candidates>>

decomposer_vars == <<kanji_arg, dpc, inferred>>

process_vars == <<surname_cache, fs_log, call_reads, pc, call, result>>

converter_vars == <<text, cpc, candidates, kata_candidates>>

normalizer_vars == <<romaji, npc, normalized>>

---------------------------------------------------------------------------
(* Bounds of the model                                                     *)

\* longest kana string handed to convert
MaxLen == 4
\* hash seeds explored: 0..MaxSeed
MaxSeed == 1
\* longest romaji string handed to _normalize_romaji
MaxRomajiLen == 3
\* longest kanji string handed to _decompose_and_read
MaxKanjiLen == 3
\* most opens of one shard file that are followed
MaxReads == 2

---------------------------------------------------------------------------
(* Generic list helpers (Python list / str primitives)                     *)

\* set(xs)
ToSet(xs) == {xs[i] : i \in 1..Len(xs)}

\* s[:n]
Take(s, n) == SubSeq(s, 1, IF n < Len(s) THEN n ELSE Len(s))

\* s.endswith(<<c>>)
EndsWith(s, c) == Len(s) > 0 /\ s[Len(s)] = c

\* s[:-1]
DropLast(s) == SubSeq(s, 1, Len(s) - 1)

\* list(dict.fromkeys(xs)): first occurrences, in order
RECURSIVE DedupFrom(_, _)
DedupFrom(xs, acc) ==
    IF xs = <<>> THEN acc
    ELSE IF Head(xs) \in ToSet(acc) THEN DedupFrom(Tail(xs), acc)
    ELSE DedupFrom(Tail(xs), Append(acc, Head(xs)))

DedupKeepAll(xs) == xs

Dedup(xs) == DedupFrom(xs, <<>>)

\* "".join / list.extend over a list of lists
RECURSIVE Flatten(_)
Flatten(xss) == IF xss = <<>> THEN <<>> ELSE Head(xss) \o Flatten(Tail(xss))

\* lexicographic order on code point strings
RECURSIVE LexLess(_, _)
LexLess(a, b) ==
    IF a = <<>> THEN b # <<>>
    ELSE IF b = <<>> THEN FALSE
    ELSE IF Head(a) # Head(b) THEN Head(a) < Head(b)
    ELSE LexLess(Tail(a), Tail(b))

\* The iteration order of a set of str under hash seed `seed`.  CPython's
\* order depends on the randomized string hashes; it is fixed within one
\* process.  The seeds pick among total orders.
Before(seed, a, b) ==
    CASE seed = 0 -> LexLess(a, b)
      [] seed = 1 -> LexLess(b, a)
      [] seed = 2 -> Len(a) < Len(b) \/ (Len(a) = Len(b) /\ LexLess(a, b))
      [] OTHER    -> Len(a) > Len(b) \/ (Len(a) = Len(b) /\ LexLess(a, b))

\* list(set(xs)) under hash seed `seed`
RECURSIVE SetOrder(_, _)
SetOrder(seed, S) ==
    IF S = {} THEN <<>>
    ELSE LET first == CHOOSE x \in S : \A y \in S \ {x} : Before(seed, x, y)
         IN  <<first>> \o SetOrder(seed, S \ {first})

ListSet(seed, xs) == SetOrder(seed, ToSet(xs))

---------------------------------------------------------------------------
(* HepburnConverter                                                        *)

ROMAJI_TABLE ==
       (<<12375, 12419>> :> <<83, 72, 65>>)   \* SI+SMALL YA -> SHA
    @@ (<<12375, 12421>> :> <<83, 72, 85>>)   \* SI+SMALL YU -> SHU
    @@ (<<12375, 12423>> :> <<83, 72, 79>>)   \* SI+SMALL YO -> SHO
    @@ (<<12376, 12419>> :> <<74, 65>>)   \* ZI+SMALL YA -> JA
    @@ (<<12376, 12421>> :> <<74, 85>>)   \* ZI+SMALL YU -> JU
    @@ (<<12376, 12423>> :> <<74, 79>>)   \* ZI+SMALL YO -> JO
    @@ (<<12385, 12419>> :> <<67, 72, 65>>)   \* TI+SMALL YA -> CHA
    @@ (<<12385, 12421>> :> <<67, 72, 85>>)   \* TI+SMALL YU -> CHU
    @@ (<<12385, 12423>> :> <<67, 72, 79>>)   \* TI+SMALL YO -> CHO
    @@ (<<12386, 12419>> :> <<74, 65>>)   \* DI+SMALL YA -> JA
    @@ (<<12386, 12421>> :> <<74, 85>>)   \* DI+SMALL YU -> JU
    @@ (<<12386, 12423>> :> <<74, 79>>)   \* DI+SMALL YO -> JO
    @@ (<<12365, 12419>> :> <<75, 89, 65>>)   \* KI+SMALL YA -> KYA
    @@ (<<12365, 12421>> :> <<75, 89, 85>>)   \* KI+SMALL YU -> KYU
    @@ (<<12365, 12423>> :> <<75, 89, 79>>)   \* KI+SMALL YO -> KYO
    @@ (<<12366, 12419>> :> <<71, 89, 65>>)   \* GI+SMALL YA -> GYA
    @@ (<<12366, 12421>> :> <<71, 89, 85>>)   \* GI+SMALL YU -> GYU
    @@ (<<12366, 12423>> :> <<71, 89, 79>>)   \* GI+SMALL YO -> GYO
    @@ (<<12395, 12419>> :> <<78, 89, 65>>)   \* NI+SMALL YA -> NYA
    @@ (<<12395, 12421>> :> <<78, 89, 85>>)   \* NI+SMALL YU -> NYU
    @@ (<<12395, 12423>> :> <<78, 89, 79>>)   \* NI+SMALL YO -> NYO
    @@ (<<12402, 12419>> :> <<72, 89, 65>>)   \* HI+SMALL YA -> HYA
    @@ (<<12402, 12421>> :> <<72, 89, 85>>)   \* HI+SMALL YU -> HYU
    @@ (<<12402, 12423>> :> <<72, 89, 79>>)   \* HI+SMALL YO -> HYO
    @@ (<<12403, 12419>> :> <<66, 89, 65>>)   \* BI+SMALL YA -> BYA
    @@ (<<12403, 12421>> :> <<66, 89, 85>>)   \* BI+SMALL YU -> BYU
    @@ (<<12403, 12423>> :> <<66, 89, 79>>)   \* BI+SMALL YO -> BYO
    @@ (<<12404, 12419>> :> <<80, 89, 65>>)   \* PI+SMALL YA -> PYA
    @@ (<<12404, 12421>> :> <<80, 89, 85>>)   \* PI+SMALL YU -> PYU
    @@ (<<12404, 12423>> :> <<80, 89, 79>>)   \* PI+SMALL YO -> PYO
    @@ (<<12415, 12419>> :> <<77, 89, 65>>)   \* MI+SMALL YA -> MYA
    @@ (<<12415, 12421>> :> <<77, 89, 85>>)   \* MI+SMALL YU -> MYU
    @@ (<<12415, 12423>> :> <<77, 89, 79>>)   \* MI+SMALL YO -> MYO
    @@ (<<12426, 12419>> :> <<82, 89, 65>>)   \* RI+SMALL YA -> RYA
    @@ (<<12426, 12421>> :> <<82, 89, 85>>)   \* RI+SMALL YU -> RYU
    @@ (<<12426, 12423>> :> <<82, 89, 79>>)   \* RI+SMALL YO -> RYO
    @@ (<<12354>> :> <<65>>)   \* A -> A
    @@ (<<12356>> :> <<73>>)   \* I -> I
    @@ (<<12358>> :> <<85>>)   \* U -> U
    @@ (<<12360>> :> <<69>>)   \* E -> E
    @@ (<<12362>> :> <<79>>)   \* O -> O
    @@ (<<12363>> :> <<75, 65>>)   \* KA -> KA
    @@ (<<12365>> :> <<75, 73>>)   \* KI -> KI
    @@ (<<12367>> :> <<75, 85>>)   \* KU -> KU
    @@ (<<12369>> :> <<75, 69>>)   \* KE -> KE
    @@ (<<12371>> :> <<75, 79>>)   \* KO -> KO
    @@ (<<12364>> :> <<71, 65>>)   \* GA -> GA
    @@ (<<12366>> :> <<71, 73>>)   \* GI -> GI
    @@ (<<12368>> :> <<71, 85>>)   \* GU -> GU
    @@ (<<12370>> :> <<71, 69>>)   \* GE -> GE
    @@ (<<12372>> :> <<71, 79>>)   \* GO -> GO
    @@ (<<12373>> :> <<83, 65>>)   \* SA -> SA
    @@ (<<12375>> :> <<83, 72, 73>>)   \* SI -> SHI
    @@ (<<12377>> :> <<83, 85>>)   \* SU -> SU
    @@ (<<12379>> :> <<83, 69>>)   \* SE -> SE
    @@ (<<12381>> :> <<83, 79>>)   \* SO -> SO
    @@ (<<12374>> :> <<90, 65>>)   \* ZA -> ZA
    @@ (<<12376>> :> <<74, 73>>)   \* ZI -> JI
    @@ (<<12378>> :> <<90, 85>>)   \* ZU -> ZU
    @@ (<<12380>> :> <<90, 69>>)   \* ZE -> ZE
    @@ (<<12382>> :> <<90, 79>>)   \* ZO -> ZO
    @@ (<<12383>> :> <<84, 65>>)   \* TA -> TA
    @@ (<<12385>> :> <<67, 72, 73>>)   \* TI -> CHI
    @@ (<<12388>> :> <<84, 83, 85>>)   \* TU -> TSU
    @@ (<<12390>> :> <<84, 69>>)   \* TE -> TE
    @@ (<<12392>> :> <<84, 79>>)   \* TO -> TO
    @@ (<<12384>> :> <<68, 65>>)   \* DA -> DA
    @@ (<<12386>> :> <<74, 73>>)   \* DI -> JI
    @@ (<<12389>> :> <<90, 85>>)   \* DU -> ZU
    @@ (<<12391>> :> <<68, 69>>)   \* DE -> DE
    @@ (<<12393>> :> <<68, 79>>)   \* DO -> DO
    @@ (<<12394>> :> <<78, 65>>)   \* NA -> NA
    @@ (<<12395>> :> <<78, 73>>)   \* NI -> NI
    @@ (<<12396>> :> <<78, 85>>)   \* NU -> NU
    @@ (<<12397>> :> <<78, 69>>)   \* NE -> NE
    @@ (<<12398>> :> <<78, 79>>)   \* NO -> NO
    @@ (<<12399>> :> <<72, 65>>)   \* HA -> HA
    @@ (<<12402>> :> <<72, 73>>)   \* HI -> HI
    @@ (<<12405>> :> <<70, 85>>)   \* HU -> FU
    @@ (<<12408>> :> <<72, 69>>)   \* HE -> HE
    @@ (<<12411>> :> <<72, 79>>)   \* HO -> HO
    @@ (<<12400>> :> <<66, 65>>)   \* BA -> BA
    @@ (<<12403>> :> <<66, 73>>)   \* BI -> BI
    @@ (<<12406>> :> <<66, 85>>)   \* BU -> BU
    @@ (<<12409>> :> <<66, 69>>)   \* BE -> BE
    @@ (<<12412>> :> <<66, 79>>)   \* BO -> BO
    @@ (<<12401>> :> <<80, 65>>)   \* PA -> PA
    @@ (<<12404>> :> <<80, 73>>)   \* PI -> PI
    @@ (<<12407>> :> <<80, 85>>)   \* PU -> PU
    @@ (<<12410>> :> <<80, 69>>)   \* PE -> PE
    @@ (<<12413>> :> <<80, 79>>)   \* PO -> PO
    @@ (<<12414>> :> <<77, 65>>)   \* MA -> MA
    @@ (<<12415>> :> <<77, 73>>)   \* MI -> MI
    @@ (<<12416>> :> <<77, 85>>)   \* MU -> MU
    @@ (<<12417>> :> <<77, 69>>)   \* ME -> ME
    @@ (<<12418>> :> <<77, 79>>)   \* MO -> MO
    @@ (<<12420>> :> <<89, 65>>)   \* YA -> YA
    @@ (<<12422>> :> <<89, 85>>)   \* YU -> YU
    @@ (<<12424>> :> <<89, 79>>)   \* YO -> YO
    @@ (<<12425>> :> <<82, 65>>)   \* RA -> RA
    @@ (<<12426>> :> <<82, 73>>)   \* RI -> RI
    @@ (<<12427>> :> <<82, 85>>)   \* RU -> RU
    @@ (<<12428>> :> <<82, 69>>)   \* RE -> RE
    @@ (<<12429>> :> <<82, 79>>)   \* RO -> RO
    @@ (<<12431>> :> <<87, 65>>)   \* WA -> WA
    @@ (<<12432>> :> <<73>>)   \* WI -> I
    @@ (<<12433>> :> <<69>>)   \* WE -> E
    @@ (<<12434>> :> <<79>>)   \* WO -> O
    @@ (<<12435>> :> <<78>>)   \* N -> N

BMP_SOUNDS == {66, 77, 80}          \* "B", "M", "P"

KATAKANA_START == 12449             \* ord of small katakana A (U+30A1)
KATAKANA_END == 12534               \* ord of small katakana KE (U+30F6)
HIRAGANA_START == 12353             \* ord of small hiragana A (U+3041)
SOKUON == 12387                     \* small hiragana TSU (U+3063)
HATSUON == 12435                    \* hiragana N (U+3093)
CHOONPU == 12540                    \* prolonged sound mark (U+30FC)
MAX_CANDIDATES == 10

LetterO == 79
LetterU == 85
LetterI == 73
LetterH == 72
LetterT == 84
LetterM == 77
LetterN == 78
Vowels == {65, 73, 85, 69, 79}      \* "AIUEO"

\* str.isalpha on one character: ASCII letters and kana letters
IsAlpha(c) ==
    \/ c \in 65..90
    \/ c \in 97..122
    \/ c \in 12353..12438
    \/ c \in 12449..12538

\* str.upper on one character (ASCII letters; kana have no case)
UpperChar(c) == IF c \in 97..122 THEN c - 32 ELSE c

Upper(s) == [i \in 1..Len(s) |-> UpperChar(s[i])]

katakana_to_hiragana_nofold(t) == t

katakana_to_hiragana(t) ==
    [i \in 1..Len(t) |->
        IF KATAKANA_START <= t[i] /\ t[i] <= KATAKANA_END
        THEN t[i] - KATAKANA_START + HIRAGANA_START
        ELSE t[i]]

\* _get_single_romaji(hiragana, index), index counted from 1
get_single_romaji(hiragana, index) ==
    IF index > Len(hiragana) THEN <<>>
    ELSE IF index + 1 <= Len(hiragana)
            /\ SubSeq(hiragana, index, index + 1) \in DOMAIN ROMAJI_TABLE
         THEN ROMAJI_TABLE[SubSeq(hiragana, index, index + 1)]
    ELSE IF <<hiragana[index]>> \in DOMAIN ROMAJI_TABLE
         THEN ROMAJI_TABLE[<<hiragana[index]>>]
    ELSE <<>>

\* _get_last_vowel(romaji): "" is <<>>
RECURSIVE LastVowelFrom(_, _)
LastVowelFrom(r, i) ==
    IF i = 0 THEN <<>>
    ELSE IF r[i] \in Vowels THEN <<r[i]>>
    ELSE LastVowelFrom(r, i - 1)

get_last_vowel(r) == LastVowelFrom(Upper(r), Len(r))

\* the H spelling of a long O: variant[:-1] + "OH" if it ends in O, else variant + "H"
OhVariant(v) ==
    IF EndsWith(v, LetterO) THEN DropLast(v) \o <<LetterO, LetterH>>
    ELSE v \o <<LetterH>>

\* the variants the prolonged sound mark adds for one variant (lines 161-170)
ChoonpuVariants(variant) ==
    IF variant = <<>> THEN <<>>
    ELSE LET last_vowel == get_last_vowel(variant)
         IN  IF last_vowel = <<>> THEN <<>>
             ELSE <<variant, variant \o last_vowel>>
                  \o (IF last_vowel = <<LetterO>> THEN <<OhVariant(variant)>> ELSE <<>>)

SokuonSegmentDoubled(hiragana, i) ==
    IF i + 1 <= Len(hiragana) /\ get_single_romaji(hiragana, i + 1) # <<>>
    THEN <<<<get_single_romaji(hiragana, i + 1)[1]>>>>
    ELSE <<<<LetterT>>>>

\* the segment a sokuon emits at position i (lines 123-136)
SokuonSegment(hiragana, i) ==
    IF i + 1 <= Len(hiragana)
    THEN LET next_romaji == get_single_romaji(hiragana, i + 1)
         IN  IF next_romaji # <<>> /\ IsAlpha(next_romaji[1])
             THEN IF Len(next_romaji) >= 2 /\ SubSeq(next_romaji, 1, 2) = <<67, 72>>
                  THEN <<<<LetterT>>>>
                  ELSE <<<<next_romaji[1]>>>>
             ELSE <<<<LetterT>>>>
    ELSE <<<<LetterT>>>>

HatsuonSegmentPlain(hiragana, i) == <<<<LetterN>>>>

\* the segment a hatsuon emits at position i (lines 141-150)
HatsuonSegment(hiragana, i) ==
    IF i + 1 <= Len(hiragana)
    THEN LET next_romaji == get_single_romaji(hiragana, i + 1)
         IN  IF next_romaji # <<>> /\ next_romaji[1] \in BMP_SOUNDS
             THEN <<<<LetterM>>>>
             ELSE <<<<LetterN>>>>
    ELSE <<<<LetterN>>>>

\* the primary scan of _convert_to_segments (lines 116-192); i counted from 1
RECURSIVE ScanFrom(_, _, _, _)
ScanFrom(seed, hiragana, i, segments) ==
    IF i > Len(hiragana) THEN segments
    ELSE LET char == hiragana[i] IN
      IF char = SOKUON
      THEN ScanFrom(seed, hiragana, i + 1, Append(segments, SokuonSegment(hiragana, i)))
      ELSE IF char = HATSUON
      THEN ScanFrom(seed, hiragana, i + 1, Append(segments, HatsuonSegment(hiragana, i)))
      ELSE IF char = CHOONPU
      THEN IF segments # <<>>
           THEN LET last_segment == segments[Len(segments)]
                    new_segment ==
                        Flatten([k \in 1..Len(last_segment) |->
                                    ChoonpuVariants(last_segment[k])])
                IN  IF new_segment # <<>>
                    THEN ScanFrom(seed, hiragana, i + 1,
                                  [segments EXCEPT ![Len(segments)] =
                                        ListSet(seed, new_segment)])
                    ELSE ScanFrom(seed, hiragana, i + 1, segments)
           ELSE ScanFrom(seed, hiragana, i + 1, segments)
      ELSE IF i + 1 <= Len(hiragana)
              /\ SubSeq(hiragana, i, i + 1) \in DOMAIN ROMAJI_TABLE
      THEN ScanFrom(seed, hiragana, i + 2,
                    Append(segments, <<ROMAJI_TABLE[SubSeq(hiragana, i, i + 1)]>>))
      ELSE IF <<char>> \in DOMAIN ROMAJI_TABLE
      THEN ScanFrom(seed, hiragana, i + 1, Append(segments, <<ROMAJI_TABLE[<<char>>]>>))
      ELSE ScanFrom(seed, hiragana, i + 1, Append(segments, <<<<char>>>>))

LongPairOfAnySize(segments, i, e, n) ==
    /\ i + 1 <= Len(segments)
    /\ EndsWith(segments[i][1], e)
    /\ segments[i + 1][1] = <<n>>

\* both segments are singletons, the first ends in `e` and the second is `n`
LongPair(segments, i, e, n) ==
    /\ i + 1 <= Len(segments)
    /\ Len(segments[i]) = 1 /\ Len(segments[i + 1]) = 1
    /\ EndsWith(segments[i][1], e)
    /\ segments[i + 1][1] = <<n>>

RECURSIVE LongVowelsOverlapping(_, _, _)
LongVowelsOverlapping(segments, i, res) ==
    IF i > Len(segments) THEN res
    ELSE LET base == segments[i][1] IN
      IF LongPair(segments, i, LetterO, LetterO)
      THEN LongVowelsOverlapping(segments, i + 1,
                Append(res, <<base, base \o <<LetterO>>, OhVariant(base)>>))
      ELSE IF LongPair(segments, i, LetterO, LetterU) \/ LongPair(segments, i, LetterU, LetterU)
      THEN LongVowelsOverlapping(segments, i + 1, Append(res, <<base, base \o <<LetterU>>>>))
      ELSE IF LongPair(segments, i, LetterI, LetterI)
      THEN LongVowelsOverlapping(segments, i + 1, Append(res, <<base, base \o <<LetterI>>>>))
      ELSE LongVowelsOverlapping(segments, i + 1, Append(res, segments[i]))

\* _process_long_vowels (lines 228-295); the h_idx bookkeeping of the code
\* feeds no result and is left out
RECURSIVE LongVowelsFrom(_, _, _)
LongVowelsFrom(segments, i, res) ==
    IF i > Len(segments) THEN res
    ELSE LET base == segments[i][1] IN
      IF LongPair(segments, i, LetterO, LetterO)
      THEN LongVowelsFrom(segments, i + 2,
                Append(res, <<base, base \o <<LetterO>>, OhVariant(base)>>))
      ELSE IF LongPair(segments, i, LetterO, LetterU)
      THEN LongVowelsFrom(segments, i + 2, Append(res, <<base, base \o <<LetterU>>>>))
      ELSE IF LongPair(segments, i, LetterU, LetterU)
      THEN LongVowelsFrom(segments, i + 2, Append(res, <<base, base \o <<LetterU>>>>))
      ELSE IF LongPair(segments, i, LetterI, LetterI)
      THEN LongVowelsFrom(segments, i + 2, Append(res, <<base, base \o <<LetterI>>>>))
      ELSE LongVowelsFrom(segments, i + 1, Append(res, segments[i]))

process_long_vowels(segments) == LongVowelsFrom(segments, 1, <<>>)

convert_to_segments(seed, hiragana) ==
    process_long_vowels(ScanFrom(seed, hiragana, 1, <<>>))

\* itertools.product(*segments) joined: the last segment varies fastest
RECURSIVE Product(_)
Product(segments) ==
    IF segments = <<>> THEN <<<<>>>>
    ELSE LET rest == Product(Tail(segments))
             first == Head(segments)
         IN  Flatten([a \in 1..Len(first) |->
                        [b \in 1..Len(rest) |-> first[a] \o rest[b]]])

RECURSIVE ProductSize(_)
ProductSize(segments) ==
    IF segments = <<>> THEN 1 ELSE Len(Head(segments)) * ProductSize(Tail(segments))

\* _generate_combinations (lines 297-328)
generate_combinations(seed, segments, max_candidates) ==
    IF segments = <<>> THEN <<<<>>>>
    ELSE LET unique_segments == [k \in 1..Len(segments) |-> ListSet(seed, segments[k])]
             total_combinations == ProductSize(unique_segments)
             limited_segments ==
                 IF total_combinations > max_candidates
                 THEN [k \in 1..Len(unique_segments) |-> Take(unique_segments[k], 3)]
                 ELSE unique_segments
         IN  Take(Dedup(Product(limited_segments)), max_candidates)

\* HepburnConverter.convert (lines 96-108)
convert(seed, t) ==
    IF t = <<>> THEN <<<<>>>>
    ELSE generate_combinations(seed,
            convert_to_segments(seed, katakana_to_hiragana(t)), MAX_CANDIDATES)

---------------------------------------------------------------------------
(* NameMatcher._normalize_romaji                                           *)

\* the characters str.strip() removes
IsSpace(c) ==
    \/ c \in 9..13
    \/ c \in 28..32
    \/ c \in {133, 160, 5760, 8232, 8233, 8239, 8287, 12288}
    \/ c \in 8192..8202

\* str.replace(" ", ""): drops every U+0020
RECURSIVE RemoveSpaces(_)
RemoveSpaces(s) ==
    IF s = <<>> THEN <<>>
    ELSE IF Head(s) = 32 THEN RemoveSpaces(Tail(s))
    ELSE <<Head(s)>> \o RemoveSpaces(Tail(s))

RECURSIVE LStrip(_)
LStrip(s) == IF s # <<>> /\ IsSpace(Head(s)) THEN LStrip(Tail(s)) ELSE s

RECURSIVE RStrip(_)
RStrip(s) == IF s # <<>> /\ IsSpace(s[Len(s)]) THEN RStrip(DropLast(s)) ELSE s

\* str.strip()
Strip(s) == RStrip(LStrip(s))

LowerChar(c) == IF c \in 65..90 THEN c + 32 ELSE c

normalize_romaji_lower(r) == Strip(RemoveSpaces([i \in 1..Len(r) |-> LowerChar(r[i])]))

\* romaji.upper().replace(" ", "").strip()  (line 206)
normalize_romaji(r) == Strip(RemoveSpaces(Upper(r)))

---------------------------------------------------------------------------
(* The dictionary store: data/name_readings.json and data/surnames/*.json  *)

HexDigit(d) == IF d < 10 THEN 48 + d ELSE 55 + d

RECURSIVE HexDigits(_)
HexDigits(n) ==
    IF n < 16 THEN <<HexDigit(n)>> ELSE Append(HexDigits(n \div 16), HexDigit(n % 16))

RECURSIVE ZeroPad(_, _)
ZeroPad(s, width) == IF Len(s) >= width THEN s ELSE ZeroPad(<<48>> \o s, width)

\* f"{ord(first_char):04X}"
FileKey(first_char) == ZeroPad(HexDigits(first_char), 4)

\* kanji strings
YAMADA_K == <<23665, 30000>>        \* U+5C71 U+7530
HIKARI_K == <<20809>>               \* U+5149
CHINMEI_K == <<29645, 21517>>       \* U+73CD U+540D
CHINKYAKU_K == <<29645, 23458>>     \* U+73CD U+5BA2
KONO_K == <<27827, 37326>>          \* U+6CB3 U+91CE
TARO_K == <<22826, 37070>>          \* U+592A U+90CE

\* kana readings
Yamada == <<12420, 12414, 12384>>
Hikari == <<12402, 12363, 12426>>
Hikaru == <<12402, 12363, 12427>>
Tarou == <<12383, 12429, 12358>>
Chin == <<12385, 12435>>
Mei == <<12417, 12356>>
Na == <<12394>>
No == <<12398>>
Sei == <<12379, 12356>>
Ki == <<12365>>
U == <<12358>>
O == <<12362>>
Ue == <<12358, 12360>>
Kami == <<12363, 12415>>
Jou == <<12376, 12423, 12358>>

\* The shard files under data/surnames: 5C71.json and 5149.json parse,
\* 6CB3.json is present but is not valid JSON, every other file is absent.
SurnameFiles ==
       (FileKey(23665) :> [parses |-> TRUE,  data |-> (YAMADA_K :> <<Yamada>>)])
    @@ (FileKey(20809) :> [parses |-> TRUE,  data |-> (HIKARI_K :> <<Hikari>>)])
    @@ (FileKey(27827) :> [parses |-> FALSE, data |-> <<>>])

\* The KanjiReader instances: 1 is built on the default name_readings.json,
\* 2 on a dictionary_path whose file holds no given names.
Readers == {1, 2}

given_names(reader) ==
    IF reader = 1
    THEN (HIKARI_K :> <<Hikaru>>) @@ (TARO_K :> <<Tarou>>)
    ELSE <<>>

single_kanji(reader) ==
       (<<29645>> :> <<Chin>>)
    @@ (<<21517>> :> <<Mei, Na>>)
    @@ (<<37326>> :> <<No>>)
    @@ (<<29983>> :> <<Sei, Ki, U, O>>)          \* U+751F
    @@ (<<19978>> :> <<Ue, Kami, Jou>>)          \* U+4E0A

---------------------------------------------------------------------------
(* KanjiReader.  `st` is the process state a call reads and writes:        *)
(* st.cache is _surname_cache, st.log counts the file system accesses.     *)

LogProbe(log, key) == [log EXCEPT ![key].probes = @ + 1]
LogOpen(log, key) == [log EXCEPT ![key].opens = @ + 1]

get_surnames_nocache(st, first_char) ==
    LET file_key == FileKey(first_char)
        probed == LogProbe(st.log, file_key)
    IN  IF file_key \in DOMAIN SurnameFiles
        THEN IF SurnameFiles[file_key].parses
             THEN [raised |-> FALSE, surnames |-> SurnameFiles[file_key].data,
                   st |-> [cache |-> st.cache, log |-> LogOpen(probed, file_key)]]
             ELSE [raised |-> TRUE, surnames |-> <<>>,
                   st |-> [cache |-> st.cache, log |-> LogOpen(probed, file_key)]]
        ELSE [raised |-> FALSE, surnames |-> <<>>,
              st |-> [cache |-> st.cache, log |-> probed]]

get_surnames_swallow(st, first_char) ==
    LET file_key == FileKey(first_char)
    IN  IF file_key \notin DOMAIN st.cache
        THEN [raised |-> FALSE,
              surnames |-> IF file_key \in DOMAIN SurnameFiles
                              /\ SurnameFiles[file_key].parses
                           THEN SurnameFiles[file_key].data ELSE <<>>,
              st |-> [cache |-> (file_key :> (IF file_key \in DOMAIN SurnameFiles
                                                 /\ SurnameFiles[file_key].parses
                                              THEN SurnameFiles[file_key].data ELSE <<>>))
                                @@ st.cache,
                      log |-> IF file_key \in DOMAIN SurnameFiles
                              THEN LogOpen(LogProbe(st.log, file_key), file_key)
                              ELSE LogProbe(st.log, file_key)]]
        ELSE [raised |-> FALSE, surnames |-> st.cache[file_key], st |-> st]

\* _get_surnames_for_char (lines 57-65)
get_surnames_for_char(st, first_char) ==
    LET file_key == FileKey(first_char)
    IN  IF file_key \notin DOMAIN st.cache
        THEN LET probed == LogProbe(st.log, file_key)
             IN  IF file_key \in DOMAIN SurnameFiles
                 THEN LET opened == LogOpen(probed, file_key)
                      IN  IF SurnameFiles[file_key].parses
                          THEN [raised |-> FALSE,
                                surnames |-> SurnameFiles[file_key].data,
                                st |-> [cache |-> (file_key :> SurnameFiles[file_key].data)
                                                  @@ st.cache,
                                        log |-> opened]]
                          ELSE [raised |-> TRUE, surnames |-> <<>>,
                                st |-> [cache |-> st.cache, log |-> opened]]
                 ELSE [raised |-> FALSE, surnames |-> <<>>,
                       st |-> [cache |-> (file_key :> <<>>) @@ st.cache,
                               log |-> probed]]
        ELSE [raised |-> FALSE, surnames |-> st.cache[file_key], st |-> st]

MAX_COMBINATIONS == 10

\* _combine_readings (lines 144-160): prefix-major, cut at max_combinations
RECURSIVE CombineFrom(_, _, _, _)
CombineFrom(char_readings, i, res, max_combinations) ==
    IF i > Len(char_readings) THEN Take(res, max_combinations)
    ELSE LET new_result ==
                 Flatten([p \in 1..Len(res) |->
                            [s \in 1..Len(char_readings[i]) |->
                                res[p] \o char_readings[i][s]]])
         IN  IF Len(new_result) >= max_combinations
             THEN Take(new_result, max_combinations)
             ELSE CombineFrom(char_readings, i + 1, new_result, max_combinations)

combine_readings(char_readings, max_combinations) ==
    IF char_readings = <<>> THEN <<>>
    ELSE CombineFrom(char_readings, 2, char_readings[1], max_combinations)

\* _decompose_and_read (lines 117-130)
decompose_and_read(reader, kanji) ==
    IF kanji = <<>> THEN <<>>
    ELSE IF \E i \in 1..Len(kanji) : <<kanji[i]>> \notin DOMAIN single_kanji(reader)
         THEN <<>>
    ELSE combine_readings([i \in 1..Len(kanji) |-> single_kanji(reader)[<<kanji[i]>>]],
                          MAX_COMBINATIONS)

\* the tail of get_readings: decomposition (lines 101-106)
ReadByDecomposition(reader, st, kanji) ==
    [raised |-> FALSE, readings |-> decompose_and_read(reader, kanji),
     found |-> FALSE, st |-> st]

Hit(readings, st) == [raised |-> FALSE, readings |-> readings, found |-> TRUE, st |-> st]

Raised(st) == [raised |-> TRUE, readings |-> <<>>, found |-> FALSE, st |-> st]

\* lines 84-85 and 92-94: the shard first, then the given names
SurnameThenGiven(reader, kanji, s) ==
    IF s.raised THEN Raised(s.st)
    ELSE IF kanji \in DOMAIN s.surnames THEN Hit(s.surnames[kanji], s.st)
    ELSE IF kanji \in DOMAIN given_names(reader)
         THEN Hit(given_names(reader)[kanji], s.st)
    ELSE ReadByDecomposition(reader, s.st, kanji)

SurnameAfterGivenSkipped(reader, kanji, s) ==
    IF s.raised THEN Raised(s.st)
    ELSE ReadByDecomposition(reader, s.st, kanji)

\* lines 97-99: the shard after the given names had no entry
SurnameAfterGiven(reader, kanji, s) ==
    IF s.raised THEN Raised(s.st)
    ELSE IF kanji \in DOMAIN s.surnames THEN Hit(s.surnames[kanji], s.st)
    ELSE ReadByDecomposition(reader, s.st, kanji)

\* KanjiReader.get_readings (lines 78-106)
get_readings(reader, st, kanji, is_surname) ==
    IF kanji = <<>>
    THEN [raised |-> FALSE, readings |-> <<>>, found |-> FALSE, st |-> st]
    ELSE IF is_surname
    THEN SurnameThenGiven(reader, kanji, get_surnames_for_char(st, kanji[1]))
    ELSE IF kanji \in DOMAIN given_names(reader)
         THEN Hit(given_names(reader)[kanji], st)
         ELSE SurnameAfterGiven(reader, kanji, get_surnames_for_char(st, kanji[1]))

---------------------------------------------------------------------------
(* NameMatcher                                                             *)

OK == "OK"
MISMATCH == "MISMATCH"
UNKNOWN_READING == "UNKNOWN_READING"

NameCheckResult(status, input, expected_readings, expected_romaji, message) ==
    [status |-> status, input |-> input, expected_readings |-> expected_readings,
     expected_romaji |-> expected_romaji, message |-> message]

\* lines 155-162: convert every reading, extend, dict.fromkeys
AllRomajiCandidates(seed, readings) ==
    Dedup(Flatten([k \in 1..Len(readings) |-> convert(seed, readings[k])]))

\* the status decided once the readings are known (lines 145-191); the
\* message texts are abbreviated to tags
DecideMismatchAlways(normalized_romaji, readings, found_in_dict, all_romaji_candidates) ==
    IF readings = <<>>
    THEN NameCheckResult(UNKNOWN_READING, normalized_romaji, <<>>, <<>>, "NOT_IN_DICTIONARY")
    ELSE IF normalized_romaji \in ToSet(all_romaji_candidates)
    THEN NameCheckResult(OK, normalized_romaji, readings, all_romaji_candidates, "None")
    ELSE NameCheckResult(MISMATCH, normalized_romaji, readings, all_romaji_candidates,
                         "NO_MATCH")

Decide(normalized_romaji, readings, found_in_dict, all_romaji_candidates) ==
    IF readings = <<>>
    THEN NameCheckResult(UNKNOWN_READING, normalized_romaji, <<>>, <<>>, "NOT_IN_DICTIONARY")
    ELSE IF normalized_romaji \in ToSet(all_romaji_candidates)
    THEN NameCheckResult(OK, normalized_romaji, readings, all_romaji_candidates, "None")
    ELSE IF found_in_dict
    THEN NameCheckResult(MISMATCH, normalized_romaji, readings, all_romaji_candidates,
                         "NO_MATCH")
    ELSE NameCheckResult(UNKNOWN_READING, normalized_romaji, readings,
                         all_romaji_candidates, "INFERRED")

\* _check_name once the resolver has answered (lines 145-191).  `found` is
\* kept beside the result for the properties; the code does not return it.
CheckReadings(seed, normalized_romaji, got) ==
    IF got.raised
    THEN [raised |-> TRUE, st |-> got.st, found |-> FALSE,
          check |-> NameCheckResult(UNKNOWN_READING, <<>>, <<>>, <<>>, "None")]
    ELSE [raised |-> FALSE, st |-> got.st, found |-> got.found,
          check |-> Decide(normalized_romaji, got.readings, got.found,
                           IF got.readings = <<>> THEN <<>>
                           ELSE AllRomajiCandidates(seed, got.readings))]

\* NameMatcher._check_name (lines 138-143)
check_name(seed, reader, st, kanji, r, is_surname) ==
    CheckReadings(seed, normalize_romaji(r), get_readings(reader, st, kanji, is_surname))

\* the f-strings of lines 101 and 108
SeiWarning(kanji_sei) ==
    <<22995, 12300>> \o kanji_sei
    \o <<12301, 12398, 35501, 12415, 12364, 36766, 26360, 12395, 12354, 12426,
         12414, 12379, 12435>>

MeiWarning(kanji_mei) ==
    <<21517, 12300>> \o kanji_mei
    \o <<12301, 12398, 35501, 12415, 12364, 36766, 26360, 12395, 12354, 12426,
         12414, 12379, 12435>>

WarningsOnMismatch(sei, mei, kanji_sei, kanji_mei) ==
    (IF sei.status # OK THEN <<SeiWarning(kanji_sei)>> ELSE <<>>)
    \o (IF mei.status # OK THEN <<MeiWarning(kanji_mei)>> ELSE <<>>)

\* lines 94-108: one warning per half of status UNKNOWN_READING, surname first
Warnings(sei, mei, kanji_sei, kanji_mei) ==
    (IF sei.status = UNKNOWN_READING THEN <<SeiWarning(kanji_sei)>> ELSE <<>>)
    \o (IF mei.status = UNKNOWN_READING THEN <<MeiWarning(kanji_mei)>> ELSE <<>>)

IsValidOnlyOK(sei, mei) == sei.status = OK /\ mei.status = OK

\* lines 112-115
IsValid(sei, mei) ==
    /\ sei.status \in {OK, UNKNOWN_READING}
    /\ mei.status \in {OK, UNKNOWN_READING}

NoResult == [kind |-> "none"]
Error == [kind |-> "error"]

\* lines 110-122: the aggregate of two finished halves
ValidationResult(kanji_sei, kanji_mei, sei, mei) ==
    IF mei.raised THEN [st |-> mei.st, result |-> Error]
    ELSE [st |-> mei.st,
          result |->
            [kind |-> "validation",
             is_valid |-> IsValid(sei.check, mei.check),
             sei_check |-> sei.check,
             mei_check |-> mei.check,
             sei_found |-> sei.found,
             mei_found |-> mei.found,
             warnings |-> Warnings(sei.check, mei.check, kanji_sei, kanji_mei)]]

\* lines 103-108: the given name is checked in the state the surname check left
ValidateMei(seed, reader, kanji_sei, kanji_mei, romaji_mei, sei) ==
    IF sei.raised THEN [st |-> sei.st, result |-> Error]
    ELSE ValidationResult(kanji_sei, kanji_mei, sei,
            check_name(seed, reader, sei.st, kanji_mei, romaji_mei, FALSE))

\* NameMatcher.validate (lines 94-122): what it returns or raises, and the
\* process state it leaves
validate(seed, reader, st, kanji_sei, kanji_mei, romaji_sei, romaji_mei) ==
    ValidateMei(seed, reader, kanji_sei, kanji_mei, romaji_mei,
                check_name(seed, reader, st, kanji_sei, romaji_sei, TRUE))

---------------------------------------------------------------------------
(* lambda_function.lambda_handler.  Python objects carry their type; the   *)
(* keys of a request are str, so code point sequences.                     *)

PyStr(s) == [type |-> "str", s |-> s]
PyInt(n) == [type |-> "int", n |-> n]
PyNone == [type |-> "NoneType"]
PyList(items) == [type |-> "list", items |-> items]
PyDict(fields) == [type |-> "dict", fields |-> fields]

\* a str holding JSON text, by what json.loads makes of it
JsonText(value) == [type |-> "str", parses |-> TRUE, value |-> value]
NotJson == [type |-> "str", parses |-> FALSE]

KANJI_SEI == <<107, 97, 110, 106, 105, 95, 115, 101, 105>>
KANJI_MEI == <<107, 97, 110, 106, 105, 95, 109, 101, 105>>
ROMAJI_SEI == <<114, 111, 109, 97, 106, 105, 95, 115, 101, 105>>
ROMAJI_MEI == <<114, 111, 109, 97, 106, 105, 95, 109, 101, 105>>
BODY == <<98, 111, 100, 121>>

required_fields == <<KANJI_SEI, KANJI_MEI, ROMAJI_SEI, ROMAJI_MEI>>

\* _parse_event_body (lines 68-75); json.loads raises JSONDecodeError
parse_event_body(event) ==
    IF BODY \in DOMAIN event.fields
    THEN IF event.fields[BODY].type = "str"
         THEN IF event.fields[BODY].parses
              THEN [raised |-> FALSE, body |-> event.fields[BODY].value]
              ELSE [raised |-> TRUE, body |-> PyNone]
         ELSE [raised |-> FALSE, body |-> event.fields[BODY]]
    ELSE [raised |-> FALSE, body |-> event]

\* the types whose values answer `f in body`
HasMembership(body) == body.type \in {"dict", "list", "str"}

IsSubstring(f, s) ==
    \E i \in 0..(Len(s) - Len(f)) : SubSeq(s, i + 1, i + Len(f)) = f

\* `f in body` for a dict (key), a list (element) and a str (substring)
Contains(body, f) ==
    CASE body.type = "dict" -> f \in DOMAIN body.fields
      [] body.type = "list" -> \E i \in 1..Len(body.items) : body.items[i] = PyStr(f)
      [] body.type = "str"  -> IsSubstring(f, body.s)

\* bool(value)
Truthy(value) ==
    CASE value.type = "str"  -> value.s # <<>>
      [] value.type = "int"  -> value.n # 0
      [] value.type = "list" -> value.items # <<>>
      [] value.type = "dict" -> DOMAIN value.fields # {}
      [] OTHER               -> FALSE

\* `f not in body or not body[f]` raises TypeError: no membership test, or
\* a str subscript on a list or a str
FieldCheckRaises(body, f) ==
    \/ ~HasMembership(body)
    \/ Contains(body, f) /\ body.type # "dict"

\* line 28, where it raises nothing
missing_fields(body) ==
    SelectSeq(required_fields,
              LAMBDA f : ~Contains(body, f) \/ ~Truthy(body.fields[f]))

\* str(body[f]).strip() (lines 37-40); the values of the requests below
\* that pass line 28 are str, for which str() changes nothing
FieldText(body, f) == Strip(body.fields[f].s)

Response(st, status_code, validate_called) ==
    [st |-> st,
     result |-> [kind |-> "response", statusCode |-> status_code,
                 validate_called |-> validate_called]]

\* lines 48-55: the exception validate lets through is the JSONDecodeError
\* of json.load on a shard file, which line 52 catches
RespondTo(out) ==
    IF out.result.kind = "error" THEN Response(out.st, 400, TRUE)
    ELSE Response(out.st, 200, TRUE)

\* lines 43-50; NameMatcher() builds its KanjiReader on the default dictionary
HandleFields(seed, st, kanji_sei, kanji_mei, romaji_sei, romaji_mei) ==
    IF kanji_sei = <<>> \/ kanji_mei = <<>> \/ romaji_sei = <<>> \/ romaji_mei = <<>>
    THEN Response(st, 400, FALSE)
    ELSE RespondTo(validate(seed, 1, st, kanji_sei, kanji_mei, romaji_sei, romaji_mei))

\* lines 27-50, with the handlers of lines 52-55
HandleBody(seed, st, body) ==
    IF \E i \in 1..Len(required_fields) : FieldCheckRaises(body, required_fields[i])
    THEN Response(st, 500, FALSE)
    ELSE IF missing_fields(body) # <<>>
    THEN Response(st, 400, FALSE)
    ELSE HandleFields(seed, st, FieldText(body, KANJI_SEI), FieldText(body, KANJI_MEI),
                      FieldText(body, ROMAJI_SEI), FieldText(body, ROMAJI_MEI))

HandleParsed(seed, st, parsed) ==
    IF parsed.raised THEN Response(st, 400, FALSE)
    ELSE HandleBody(seed, st, parsed.body)

\* lambda_handler (lines 22-55)
lambda_handler(seed, st, event) == HandleParsed(seed, st, parse_event_body(event))

---------------------------------------------------------------------------
(* Inputs                                                                  *)

KanjiInputs == {YAMADA_K, HIKARI_K, CHINMEI_K, CHINKYAKU_K, KONO_K, TARO_K}

RomajiInputs ==
    { <<89, 97, 109, 97, 32, 100, 97>>,         \* "Yama da"
      <<89, 65, 77, 65, 68, 65>>,               \* "YAMADA"
      <<72, 73, 75, 65, 82, 85>>,               \* "HIKARU"
      <<67, 72, 73, 77, 77, 69, 73>> }          \* "CHIMMEI"

FileKeys == {FileKey(k[1]) : k \in KanjiInputs}

\* hiragana O, U, I, KO, TI, small YA, sokuon, N, PA; the prolonged sound
\* mark; katakana O
KanaAlphabet ==
    {12362, 12358, 12356, 12371, 12385, 12419, 12387, 12435, 12401, 12540, 12458}

\* the strings the tests and the documentation romanize
OONO_T == <<12362, 12362, 12398>>
SATOU_T == <<12373, 12392, 12358>>
YUU_T == <<12422, 12358>>
IPPAI_T == <<12356, 12387, 12401, 12356>>
NAMBA_T == <<12394, 12435, 12400>>
AAI_T == <<12354, 12540, 12356>>

ExampleTexts == {OONO_T, SATOU_T, YUU_T, IPPAI_T, NAMBA_T, AAI_T}

\* "a", "B", space, tab, newline
RomajiAlphabet == {97, 66, 32, 9, 10}

RECURSIVE StringsUpTo(_, _)
StringsUpTo(alphabet, n) ==
    IF n = 0 THEN {<<>>}
    ELSE LET shorter == StringsUpTo(alphabet, n - 1)
         IN  shorter \cup {Append(s, c) : s \in shorter, c \in alphabet}

\* the katakana spelling of a kana string: hiragana U+3041..U+3096 moved up
\* by 0x60, everything else kept
KatakanaEquivalent(k) ==
    [i \in 1..Len(k) |->
        IF HIRAGANA_START <= k[i] /\ k[i] <= HIRAGANA_START + (KATAKANA_END - KATAKANA_START)
        THEN k[i] - HIRAGANA_START + KATAKANA_START
        ELSE k[i]]

\* the values a request gives a field; absent is the field left out
Absent == [type |-> "absent"]

KanjiSeiValues ==
    { Absent, PyNone, PyInt(0), PyStr(<<>>), PyStr(<<32>>),
      PyStr(<<32>> \o YAMADA_K \o <<12288>>),           \* padded, U+3000 last
      PyStr(KONO_K) }

KanjiMeiValues == { Absent, PyStr(<<12288>>), PyStr(HIKARI_K), PyStr(CHINMEI_K) }

RomajiSeiValues ==
    { Absent, PyStr(<<>>), PyStr(<<32, 121, 97, 109, 97, 100, 97>>) }   \* " yamada"

RomajiMeiValues == { PyStr(<<9>>), PyStr(<<72, 73, 75, 65, 82, 85>>) }  \* tab, "HIKARU"

\* the dict of the fields that are given
RequestDict(ks, km, rs, rm) ==
    PyDict([f \in {g \in {KANJI_SEI, KANJI_MEI, ROMAJI_SEI, ROMAJI_MEI} :
                    (CASE g = KANJI_SEI -> ks [] g = KANJI_MEI -> km
                       [] g = ROMAJI_SEI -> rs [] OTHER -> rm) # Absent}
            |-> CASE f = KANJI_SEI -> ks [] f = KANJI_MEI -> km
                  [] f = ROMAJI_SEI -> rs [] OTHER -> rm])

RequestDicts ==
    { RequestDict(ks, km, rs, rm) :
        ks \in KanjiSeiValues, km \in KanjiMeiValues,
        rs \in RomajiSeiValues, rm \in RomajiMeiValues }

\* JSON values that are no object: a number, null, arrays and strings
\* without and with the field names in them
OtherBodies ==
    { PyInt(123), PyNone, PyList(<<>>),
      PyList(<<PyStr(KANJI_SEI), PyStr(KANJI_MEI), PyStr(ROMAJI_SEI), PyStr(ROMAJI_MEI)>>),
      PyStr(<<97, 98, 99>>),
      PyStr(KANJI_SEI \o KANJI_MEI \o ROMAJI_SEI \o ROMAJI_MEI) }

\* direct invocations, and API Gateway events whose body is JSON text, text
\* that is no JSON, an object or None
Events ==
    RequestDicts
    \cup { PyDict(BODY :> JsonText(v)) :
             v \in OtherBodies
                   \cup { RequestDict(ks, PyStr(HIKARI_K),
                                      PyStr(<<32, 121, 97, 109, 97, 100, 97>>),
                                      PyStr(<<72, 73, 75, 65, 82, 85>>)) :
                             ks \in KanjiSeiValues } }
    \cup { PyDict(BODY :> NotJson), PyDict(BODY :> PyNone),
           PyDict(BODY :> RequestDict(PyStr(YAMADA_K), PyStr(HIKARI_K),
                                      PyStr(<<32, 121, 97, 109, 97, 100, 97>>),
                                      PyStr(<<72, 73, 75, 65, 82, 85>>))) }

---------------------------------------------------------------------------
(* The process: calls of validate and get_readings, one after the other    *)

State == [cache |-> surname_cache, log |-> fs_log]

WithinReads(st) == \A k \in FileKeys : st.log[k].opens <= MaxReads

ConverterIdle ==
    /\ text = <<>> /\ cpc = "off" /\ candidates = <<>> /\ kata_candidates = <<>>
    /\ other_candidates = <<>>

NormalizerIdle ==
    /\ romaji = <<>> /\ npc = "off" /\ normalized = <<>>

DecomposerIdle ==
    /\ kanji_arg = <<>> /\ dpc = "off" /\ inferred = <<>>

\* no call has been made: the cache is as the import of the module left it
CacheEmpty ==
    /\ surname_cache = <<>>
    /\ fs_log = [k \in FileKeys |-> [probes |-> 0, opens |-> 0]]
    /\ call_reads = 0
    /\ pc = "idle"
    /\ call = [op |-> "none"]
    /\ result = NoResult

ProcessIdle ==
    /\ CacheEmpty
    /\ threads = <<>>

Init ==
    /\ hash_seed \in 0..MaxSeed
    /\ ProcessIdle
    /\ ConverterIdle
    /\ NormalizerIdle
    /\ DecomposerIdle

\* open(path) calls counted in a log, over the shard files `keys`
RECURSIVE Opens(_, _)
Opens(log, keys) ==
    IF keys = {} THEN 0
    ELSE LET k == CHOOSE x \in keys : TRUE
         IN  log[k].opens + Opens(log, keys \ {k})

\* the call ends: the process state and the outcome it leaves
Ends(out) ==
    /\ WithinReads(out.st)
    /\ surname_cache' = out.st.cache
    /\ fs_log' = out.st.log
    /\ call_reads' = Opens(out.st.log, FileKeys) - Opens(fs_log, FileKeys)
    /\ result' = out.result
    /\ pc' = "returned"

Validate(reader, kanji_sei, kanji_mei, romaji_sei, romaji_mei) ==
    /\ pc = "idle"
    /\ Ends(validate(hash_seed, reader, State, kanji_sei, kanji_mei,
                     romaji_sei, romaji_mei))
    /\ call' = [op |-> "validate", reader |-> reader,
                kanji_sei |-> kanji_sei, kanji_mei |-> kanji_mei,
                romaji_sei |-> romaji_sei, romaji_mei |-> romaji_mei]
    /\ UNCHANGED <<threads, other_candidates, decomposer_vars, hash_seed, text, cpc, candidates, kata_candidates,
                   romaji, npc, normalized>>

ReadingsOutcome(got) ==
    [st |-> got.st,
     result |-> IF got.raised THEN Error
                ELSE [kind |-> "readings", readings |-> got.readings,
                      found |-> got.found]]

GetReadings(reader, kanji, is_surname) ==
    /\ pc = "idle"
    /\ Ends(ReadingsOutcome(get_readings(reader, State, kanji, is_surname)))
    /\ call' = [op |-> "get_readings", reader |-> reader, kanji |-> kanji,
                is_surname |-> is_surname]
    /\ UNCHANGED <<threads, other_candidates, decomposer_vars, hash_seed, text, cpc, candidates, kata_candidates,
                   romaji, npc, normalized>>

LambdaHandler(event) ==
    /\ pc = "idle"
    /\ Ends(lambda_handler(hash_seed, State, event))
    /\ call' = [op |-> "lambda_handler", event |-> event]
    /\ UNCHANGED <<threads, other_candidates, decomposer_vars, hash_seed, text, cpc, candidates, kata_candidates,
                   romaji, npc, normalized>>

\* the caller takes the result; the process is ready for the next call
Return ==
    /\ pc = "returned"
    /\ pc' = "idle"
    /\ call' = [op |-> "none"]
    /\ result' = NoResult
    /\ call_reads' = 0
    /\ UNCHANGED <<threads, other_candidates, decomposer_vars, hash_seed, surname_cache, fs_log, text, cpc, candidates,
                   kata_candidates, romaji, npc, normalized>>

Next ==
    \/ \E reader \in Readers, kanji_sei \in KanjiInputs, kanji_mei \in KanjiInputs,
          romaji_sei \in RomajiInputs, romaji_mei \in RomajiInputs :
            Validate(reader, kanji_sei, kanji_mei, romaji_sei, romaji_mei)
    \/ \E reader \in Readers, kanji \in KanjiInputs \cup {<<>>}, is_surname \in BOOLEAN :
            GetReadings(reader, kanji, is_surname)
    \/ \E event \in Events : LambdaHandler(event)
    \/ Return

Spec == Init /\ [][Next]_vars

---------------------------------------------------------------------------
(* The romanizer alone: convert applied to a kana string and to its        *)
(* katakana spelling                                                       *)

InitConvert ==
    /\ hash_seed \in 0..MaxSeed
    /\ ProcessIdle
    /\ NormalizerIdle
    /\ DecomposerIdle
    /\ text \in StringsUpTo(KanaAlphabet, MaxLen) \cup ExampleTexts
    /\ cpc = "start"
    /\ candidates = <<>>
    /\ kata_candidates = <<>>
    /\ other_candidates = <<>>

Convert ==
    /\ cpc = "start"
    /\ candidates' = convert(hash_seed, text)
    /\ cpc' = "converted"
    /\ UNCHANGED <<threads, other_candidates, decomposer_vars, hash_seed, surname_cache, fs_log, call_reads, pc, call, result, text,
                   kata_candidates, romaji, npc, normalized>>

ConvertKatakana ==
    /\ cpc = "converted"
    /\ kata_candidates' = convert(hash_seed, KatakanaEquivalent(text))
    /\ cpc' = "done"
    /\ UNCHANGED <<threads, other_candidates, decomposer_vars, hash_seed, surname_cache, fs_log, call_reads, pc, call, result, text,
                   candidates, romaji, npc, normalized>>

NextConvert == Convert \/ ConvertKatakana

SpecConvert == InitConvert /\ [][NextConvert]_vars

---------------------------------------------------------------------------
(* The romanizer in two processes: convert applied to one kana string      *)
(* under this process's hash seed and under another process's              *)

\* "お", "ー", "こ", "う": the scalars of long-vowel pairs and marked segments
LongVowelAlphabet == {12362, 12540, 12371, 12358}

InitTwoProcesses ==
    /\ hash_seed \in 0..MaxSeed
    /\ ProcessIdle
    /\ NormalizerIdle
    /\ DecomposerIdle
    /\ text \in StringsUpTo(LongVowelAlphabet, MaxLen)
    /\ cpc = "start"
    /\ candidates = <<>>
    /\ kata_candidates = <<>>
    /\ other_candidates = <<>>

\* convert(text) in a process started with hash seed `seed`
ConvertElsewhere(seed) ==
    /\ cpc = "converted"
    /\ other_candidates' = convert(seed, text)
    /\ cpc' = "compared"
    /\ UNCHANGED <<threads, decomposer_vars, hash_seed, process_vars, text,
                   candidates, kata_candidates, normalizer_vars>>

NextTwoProcesses ==
    \/ Convert
    \/ \E seed \in 0..MaxSeed : ConvertElsewhere(seed)

SpecTwoProcesses == InitTwoProcesses /\ [][NextTwoProcesses]_vars

---------------------------------------------------------------------------
(* The normalizer alone: _normalize_romaji applied once and again          *)

InitNormalize ==
    /\ hash_seed = 0
    /\ ProcessIdle
    /\ ConverterIdle
    /\ DecomposerIdle
    /\ romaji \in StringsUpTo(RomajiAlphabet, MaxRomajiLen)
    /\ npc = "start"
    /\ normalized = <<>>

Normalize ==
    /\ npc = "start"
    /\ normalized' = <<normalize_romaji(romaji)>>
    /\ npc' = "once"
    /\ UNCHANGED <<threads, other_candidates, decomposer_vars, hash_seed, surname_cache, fs_log, call_reads, pc, call, result, text, cpc,
                   candidates, kata_candidates, romaji>>

NormalizeAgain ==
    /\ npc = "once"
    /\ normalized' = Append(normalized, normalize_romaji(normalized[1]))
    /\ npc' = "twice"
    /\ UNCHANGED <<threads, other_candidates, decomposer_vars, hash_seed, surname_cache, fs_log, call_reads, pc, call, result, text, cpc,
                   candidates, kata_candidates, romaji>>

NextNormalize == Normalize \/ NormalizeAgain

SpecNormalize == InitNormalize /\ [][NextNormalize]_vars

---------------------------------------------------------------------------
(* The decomposition alone: _decompose_and_read applied to a kanji string  *)

\* U+751F, U+4E0A, U+540D, U+91CE have single-kanji readings, U+7530 none
DecomposedKanji == {29983, 19978, 21517, 37326, 30000}

InitDecompose ==
    /\ hash_seed = 0
    /\ ProcessIdle
    /\ ConverterIdle
    /\ NormalizerIdle
    /\ kanji_arg \in StringsUpTo(DecomposedKanji, MaxKanjiLen)
    /\ dpc = "start"
    /\ inferred = <<>>

Decompose(reader) ==
    /\ dpc = "start"
    /\ inferred' = decompose_and_read(reader, kanji_arg)
    /\ dpc' = "done"
    /\ UNCHANGED <<hash_seed, surname_cache, fs_log, call_reads, pc, call, result,
                   text, cpc, candidates, kata_candidates, romaji, npc, normalized,
                   kanji_arg, threads, other_candidates>>

NextDecompose == \E reader \in Readers : Decompose(reader)

SpecDecompose == InitDecompose /\ [][NextDecompose]_vars

---------------------------------------------------------------------------
(* Threads of one process in get_readings.  _get_surnames_for_char takes   *)
(* no lock: a thread can be switched out between any two of its steps.     *)

Threads == {1, 2}

ThreadKanji == {YAMADA_K, HIKARI_K, CHINMEI_K, KONO_K}

ThreadCalls ==
    { [pc |-> "call", reader |-> 1, kanji |-> k, is_surname |-> s,
       loaded |-> <<>>, seen |-> <<>>, result |-> NoResult] :
        k \in ThreadKanji, s \in BOOLEAN }

InitThreads ==
    /\ hash_seed = 0
    /\ CacheEmpty
    /\ ConverterIdle
    /\ NormalizerIdle
    /\ DecomposerIdle
    /\ threads \in [Threads -> ThreadCalls]

ThreadKey(t) == FileKey(threads[t].kanji[1])

\* get_readings up to its call of _get_surnames_for_char (lines 78-97)
ThreadCall(t) ==
    /\ threads[t].pc = "call"
    /\ threads' =
         IF ~threads[t].is_surname
            /\ threads[t].kanji \in DOMAIN given_names(threads[t].reader)
         THEN [threads EXCEPT
                 ![t].pc = "done",
                 ![t].result = ReadingsOutcome(
                     Hit(given_names(threads[t].reader)[threads[t].kanji], State)).result]
         ELSE [threads EXCEPT ![t].pc = "check"]
    /\ UNCHANGED <<hash_seed, process_vars, converter_vars, normalizer_vars,
                   decomposer_vars, other_candidates>>

\* line 58: if file_key not in _surname_cache
ThreadCheck(t) ==
    /\ threads[t].pc = "check"
    /\ threads' = [threads EXCEPT
                     ![t].pc = IF ThreadKey(t) \notin DOMAIN surname_cache
                               THEN "exists" ELSE "return"]
    /\ UNCHANGED <<hash_seed, process_vars, converter_vars, normalizer_vars,
                   decomposer_vars, other_candidates>>

\* lines 59-60 and the right-hand side of line 64: path.exists()
ThreadExists(t) ==
    /\ threads[t].pc = "exists"
    /\ fs_log' = LogProbe(fs_log, ThreadKey(t))
    /\ threads' = [threads EXCEPT
                     ![t].pc = IF ThreadKey(t) \in DOMAIN SurnameFiles
                               THEN "open" ELSE "store",
                     ![t].loaded = <<>>]
    /\ UNCHANGED <<hash_seed, surname_cache, call_reads, pc, call, result,
                   converter_vars, normalizer_vars, decomposer_vars, other_candidates>>

\* lines 61-62: open(path) and json.load(f), which raises on a corrupt file
ThreadLoad(t) ==
    /\ threads[t].pc = "open"
    /\ fs_log' = LogOpen(fs_log, ThreadKey(t))
    /\ threads' =
         IF SurnameFiles[ThreadKey(t)].parses
         THEN [threads EXCEPT ![t].pc = "store",
                              ![t].loaded = SurnameFiles[ThreadKey(t)].data]
         ELSE [threads EXCEPT ![t].pc = "done", ![t].result = Error]
    /\ UNCHANGED <<hash_seed, surname_cache, call_reads, pc, call, result,
                   converter_vars, normalizer_vars, decomposer_vars, other_candidates>>

\* the assignment of line 62 or 64: _surname_cache[file_key] = ...
ThreadStore(t) ==
    /\ threads[t].pc = "store"
    /\ surname_cache' =
         [k \in DOMAIN surname_cache \cup {ThreadKey(t)} |->
            IF k = ThreadKey(t) THEN threads[t].loaded ELSE surname_cache[k]]
    /\ threads' = [threads EXCEPT ![t].pc = "return"]
    /\ UNCHANGED <<hash_seed, fs_log, call_reads, pc, call, result,
                   converter_vars, normalizer_vars, decomposer_vars, other_candidates>>

\* what get_readings makes of the mapping it was handed (lines 84-106)
ThreadOutcome(reader, kanji, is_surname, s) ==
    IF is_surname THEN ReadingsOutcome(SurnameThenGiven(reader, kanji, s)).result
    ELSE ReadingsOutcome(SurnameAfterGiven(reader, kanji, s)).result

\* line 65: return _surname_cache[file_key], and the rest of get_readings
ThreadReturn(t) ==
    /\ threads[t].pc = "return"
    /\ threads' = [threads EXCEPT
                     ![t].pc = "done",
                     ![t].seen = surname_cache[ThreadKey(t)],
                     ![t].result =
                         ThreadOutcome(threads[t].reader, threads[t].kanji,
                                       threads[t].is_surname,
                                       [raised |-> FALSE,
                                        surnames |-> surname_cache[ThreadKey(t)],
                                        st |-> State])]
    /\ UNCHANGED <<hash_seed, process_vars, converter_vars, normalizer_vars,
                   decomposer_vars, other_candidates>>

NextThreads ==
    \E t \in Threads :
        \/ ThreadCall(t)
        \/ ThreadCheck(t)
        \/ ThreadExists(t)
        \/ ThreadLoad(t)
        \/ ThreadStore(t)
        \/ ThreadReturn(t)

SpecThreads == InitThreads /\ [][NextThreads]_vars

---------------------------------------------------------------------------
(* Properties                                                              *)

Validated == pc = "returned" /\ call.op = "validate" /\ result.kind = "validation"

Statuses == {OK, MISMATCH, UNKNOWN_READING}

Passing == {OK, UNKNOWN_READING}

\* C1: whenever validate returns, is_valid is true iff both halves' statuses
\* are OK or UNKNOWN_READING, and false exactly when a half is MISMATCH.
C1_IsValidIffNoMismatch ==
    Validated =>
        /\ result.sei_check.status \in Statuses
        /\ result.mei_check.status \in Statuses
        /\ result.is_valid <=> (/\ result.sei_check.status \in Passing
                                /\ result.mei_check.status \in Passing)
        /\ ~result.is_valid <=> (\/ result.sei_check.status = MISMATCH
                                 \/ result.mei_check.status = MISMATCH)

\* an unknown surname beside a matching given name is valid
C1_Witness ==
    /\ Validated
    /\ result.sei_check.status = UNKNOWN_READING
    /\ result.mei_check.status = OK
    /\ result.is_valid

\* the status rule of one half, read off its result
StatusRule(check, found, raw) ==
    /\ check.input = normalize_romaji(raw)
    /\ check.expected_readings = <<>> =>
            check.status = UNKNOWN_READING /\ check.expected_romaji = <<>>
    /\ check.expected_readings # <<>> =>
            /\ check.expected_romaji # <<>>
            /\ check.input \in ToSet(check.expected_romaji) => check.status = OK
            /\ check.input \notin ToSet(check.expected_romaji) =>
                    check.status = (IF found THEN MISMATCH ELSE UNKNOWN_READING)
    /\ check.status = MISMATCH => found
    /\ check.status = OK => check.input \in ToSet(check.expected_romaji)

\* C2: each half is UNKNOWN_READING with empty expected lists when there are
\* no readings; otherwise OK if the normalized romaji is in expected_romaji,
\* otherwise MISMATCH if the readings came from a table, otherwise
\* UNKNOWN_READING.
C2_StatusDecision ==
    Validated =>
        /\ StatusRule(result.sei_check, result.sei_found, call.romaji_sei)
        /\ StatusRule(result.mei_check, result.mei_found, call.romaji_mei)

\* a surname found in its shard that does not match, beside a given name
\* whose inferred readings do not match
C2_Witness ==
    /\ Validated
    /\ result.sei_check.status = MISMATCH
    /\ result.mei_check.status = UNKNOWN_READING
    /\ result.mei_check.expected_readings # <<>>
    /\ ~result.mei_found

SameNameTwice ==
    /\ Validated
    /\ call.kanji_sei = call.kanji_mei
    /\ call.romaji_sei = call.romaji_mei

\* C3 as stated: validate(x, x, r, r) is valid for every r in the
\* expected_romaji computed for x.
C3_AsStated ==
    (/\ SameNameTwice
     /\ call.romaji_sei \in ToSet(result.sei_check.expected_romaji)
                            \cup ToSet(result.mei_check.expected_romaji))
        => result.is_valid

\* C3 amended: validate(x, x, r, r) is valid for every r that is in the
\* expected_romaji of x both as a surname and as a given name.
C3_ValidForCommonRomaji ==
    (/\ SameNameTwice
     /\ call.romaji_sei \in ToSet(result.sei_check.expected_romaji)
                            \cap ToSet(result.mei_check.expected_romaji))
        => result.is_valid

\* a name found in a table, given its own romanization for both halves
C3_Witness ==
    /\ SameNameTwice
    /\ result.sei_found /\ result.mei_found
    /\ call.romaji_sei \in ToSet(result.sei_check.expected_romaji)
                           \cap ToSet(result.mei_check.expected_romaji)
    /\ result.is_valid

AsciiWhitespace == {9, 10, 11, 12, 13, 32}

\* C4: the normalized romaji holds no ASCII whitespace and no lowercase
\* letter.
C4_NoWhitespaceNoLowercase ==
    npc # "start" =>
        \A i \in 1..Len(normalized[1]) :
            /\ normalized[1][i] \notin AsciiWhitespace
            /\ normalized[1][i] \notin 97..122

\* C5: convert of a nonempty kana string is a nonempty list of strings of
\* the letters A-Z.
C5_UppercaseLettersOnly ==
    (cpc # "start" /\ text # <<>>) =>
        /\ candidates # <<>>
        /\ \A k \in 1..Len(candidates) :
              \A i \in 1..Len(candidates[k]) : candidates[k][i] \in 65..90

\* C6: convert returns no element twice and at most 10 elements; for the
\* empty string it returns [""].
C6_DedupedWithinBudget ==
    cpc # "start" =>
        /\ Cardinality(ToSet(candidates)) = Len(candidates)
        /\ Len(candidates) <= 10
        /\ Len(candidates) >= 1
        /\ text = <<>> => candidates = <<<<>>>>

\* the product of the segments exceeds the budget
C6_Witness ==
    /\ cpc = "converted"
    /\ ProductSize(convert_to_segments(hash_seed, katakana_to_hiragana(text))) > 10

\* C7: the katakana spelling of a kana string converts to the same set of
\* romanizations.
C7_KatakanaSameSet ==
    cpc = "done" => ToSet(kata_candidates) = ToSet(candidates)

\* a string with hiragana in it that has several romanizations
C7_Witness ==
    /\ cpc = "done"
    /\ KatakanaEquivalent(text) # text
    /\ Len(candidates) > 1
    /\ ToSet(kata_candidates) = ToSet(candidates)

UnknownHalves ==
    (IF result.sei_check.status = UNKNOWN_READING THEN 1 ELSE 0)
    + (IF result.mei_check.status = UNKNOWN_READING THEN 1 ELSE 0)

\* the warning starts with the label of its half and quotes the kanji
Names(warning, label, kanji) ==
    /\ Len(warning) >= 2 + Len(kanji)
    /\ warning[1] = label
    /\ SubSeq(warning, 3, 2 + Len(kanji)) = kanji

\* C8: warnings holds one entry per half of status UNKNOWN_READING and no
\* other; the surname's entry comes first.
C8_OneWarningPerUnknownHalf ==
    Validated =>
        /\ Len(result.warnings) = UnknownHalves
        /\ result.sei_check.status = UNKNOWN_READING =>
                Names(result.warnings[1], 22995, call.kanji_sei)
        /\ result.mei_check.status = UNKNOWN_READING =>
                Names(result.warnings[UnknownHalves], 21517, call.kanji_mei)

\* both halves unknown, for different kanji
C8_Witness ==
    /\ Validated
    /\ result.sei_check.status = UNKNOWN_READING
    /\ result.mei_check.status = UNKNOWN_READING
    /\ call.kanji_sei # call.kanji_mei
    /\ Len(result.warnings) = 2

Parses(k) == k \in DOMAIN SurnameFiles /\ SurnameFiles[k].parses

Corrupt(k) == k \in DOMAIN SurnameFiles /\ ~SurnameFiles[k].parses

Missing(k) == k \notin DOMAIN SurnameFiles

NeedsShard(reader, kanji, is_surname) ==
    /\ kanji # <<>>
    /\ is_surname \/ kanji \notin DOMAIN given_names(reader)

HitsCorrupt(reader, kanji, is_surname) ==
    NeedsShard(reader, kanji, is_surname) /\ Corrupt(FileKey(kanji[1]))

\* C10: a lookup of a shard file that does not parse raises out of
\* get_readings and validate and leaves the cache without an entry for the
\* key; a lookup of a missing shard raises nothing and resolves as a lookup
\* without a hit in the surname table.
C10_CorruptRaisesMissingDoesNot ==
    /\ \A k \in FileKeys : Corrupt(k) => k \notin DOMAIN surname_cache
    /\ (pc = "returned" /\ call.op = "get_readings") =>
          /\ result.kind = "error" <=>
                HitsCorrupt(call.reader, call.kanji, call.is_surname)
          /\ (NeedsShard(call.reader, call.kanji, call.is_surname)
              /\ Missing(FileKey(call.kanji[1]))) =>
                /\ result.kind = "readings"
                /\ IF call.kanji \in DOMAIN given_names(call.reader)
                   THEN result.found
                        /\ result.readings = given_names(call.reader)[call.kanji]
                   ELSE ~result.found
                        /\ result.readings = decompose_and_read(call.reader, call.kanji)
    /\ (pc = "returned" /\ call.op = "validate") =>
          /\ result.kind = "error" <=>
                \/ HitsCorrupt(call.reader, call.kanji_sei, TRUE)
                \/ HitsCorrupt(call.reader, call.kanji_mei, FALSE)
          /\ result.kind = "error" => "is_valid" \notin DOMAIN result

\* validate raised in the given-name half, after the surname half had
\* cached its shard
C10_Witness ==
    /\ pc = "returned" /\ call.op = "validate"
    /\ result.kind = "error"
    /\ call.kanji_sei = YAMADA_K
    /\ call.kanji_mei = KONO_K
    /\ FileKey(23665) \in DOMAIN surname_cache
    /\ FileKey(27827) \notin DOMAIN surname_cache
    /\ fs_log[FileKey(27827)].opens = 2

---------------------------------------------------------------------------
(* Resolution order of get_readings                                        *)

ReadingsReturned ==
    pc = "returned" /\ call.op = "get_readings" /\ result.kind = "readings"

\* what the surname shard of kanji holds: a missing shard holds nothing
SurnameTable(kanji) ==
    IF Parses(FileKey(kanji[1])) THEN SurnameFiles[FileKey(kanji[1])].data ELSE <<>>

PrimaryTable(reader, kanji, is_surname) ==
    IF is_surname THEN SurnameTable(kanji) ELSE given_names(reader)

OppositeTable(reader, kanji, is_surname) ==
    IF is_surname THEN given_names(reader) ELSE SurnameTable(kanji)

\* the answer the four steps give for a nonempty kanji
ResolvedInOrder(reader, kanji, is_surname) ==
    IF kanji \in DOMAIN PrimaryTable(reader, kanji, is_surname)
    THEN [readings |-> PrimaryTable(reader, kanji, is_surname)[kanji], found |-> TRUE]
    ELSE IF kanji \in DOMAIN OppositeTable(reader, kanji, is_surname)
    THEN [readings |-> OppositeTable(reader, kanji, is_surname)[kanji], found |-> TRUE]
    ELSE [readings |-> decompose_and_read(reader, kanji), found |-> FALSE]

\* C11: get_readings answers from the primary table, else from the opposite
\* table (both with found_in_dict true), else by decomposition, else with
\* ([], false); found_in_dict is true only beside a nonempty reading list.
C11_ResolutionOrder ==
    ReadingsReturned =>
        /\ call.kanji # <<>> =>
              /\ result.readings =
                    ResolvedInOrder(call.reader, call.kanji, call.is_surname).readings
              /\ result.found =
                    ResolvedInOrder(call.reader, call.kanji, call.is_surname).found
        /\ call.kanji = <<>> => result.readings = <<>> /\ ~result.found
        /\ result.found => result.readings # <<>>

\* a given-name lookup answered from the surname shard
C11_Witness ==
    /\ ReadingsReturned
    /\ ~call.is_surname
    /\ call.kanji = YAMADA_K
    /\ call.kanji \notin DOMAIN given_names(call.reader)
    /\ result.found
    /\ result.readings = <<Yamada>>

---------------------------------------------------------------------------
(* Shard-file reads of one call                                            *)

\* C12 as stated: a validate call opens at most one shard file.
C12_AsStated ==
    (pc = "returned" /\ call.op = "validate") => call_reads <= 1

\* C12 amended: a validate call opens at most two shard files, at most one
\* for each half, and none for a half that does not look a shard up or
\* whose shard key the cache holds when the half starts.
C12_AtMostOneReadPerHalf ==
    /\ (pc = "returned" /\ call.op = "get_readings") =>
          /\ call_reads <= 1
          /\ ~NeedsShard(call.reader, call.kanji, call.is_surname) => call_reads = 0
    /\ (pc = "returned" /\ call.op = "validate") =>
          /\ call_reads <= 2
          /\ (/\ FileKey(call.kanji_sei[1]) = FileKey(call.kanji_mei[1])
              /\ ~Corrupt(FileKey(call.kanji_sei[1]))) => call_reads <= 1
          /\ ~NeedsShard(call.reader, call.kanji_mei, FALSE) => call_reads <= 1

\* a validate call that read the surname's shard and then, for the given
\* name's cross-lookup, another one
C12_Witness ==
    /\ Validated
    /\ call.kanji_sei = HIKARI_K
    /\ call.kanji_mei = YAMADA_K
    /\ call_reads = 2
    /\ fs_log[FileKey(20809)].opens = 1
    /\ fs_log[FileKey(23665)].opens = 1

---------------------------------------------------------------------------
(* The status codes of lambda_handler                                      *)

Handled == pc = "returned" /\ call.op = "lambda_handler"

\* the request's fields, when its body is a JSON object; no object otherwise
RequestFields(event) ==
    IF BODY \notin DOMAIN event.fields THEN event
    ELSE IF event.fields[BODY].type = "dict" THEN event.fields[BODY]
    ELSE IF event.fields[BODY].type = "str" /\ event.fields[BODY].parses
            /\ event.fields[BODY].value.type = "dict"
         THEN event.fields[BODY].value
    ELSE PyNone

\* a field that is present with a str that is not only whitespace
GivenField(fields, f) ==
    /\ f \in DOMAIN fields.fields
    /\ fields.fields[f].type = "str"
    /\ Strip(fields.fields[f].s) # <<>>

WellFormed(event) ==
    /\ RequestFields(event).type = "dict"
    /\ \A i \in 1..Len(required_fields) : GivenField(RequestFields(event), required_fields[i])

\* validate raises on the well-formed request: a half reaches a corrupt shard
DictionaryFails(event) ==
    \/ HitsCorrupt(1, Strip(RequestFields(event).fields[KANJI_SEI].s), TRUE)
    \/ HitsCorrupt(1, Strip(RequestFields(event).fields[KANJI_MEI].s), FALSE)

\* C13: lambda_handler answers 400 without calling validate for every
\* malformed request (a field missing, empty or only whitespace, or a body
\* that is no JSON object with the fields), 200 whenever validate completes,
\* and 500 only for internal errors such as dictionary I/O failures.
C13_StatusCodes ==
    Handled =>
        /\ ~WellFormed(call.event) =>
                result.statusCode = 400 /\ ~result.validate_called
        /\ (WellFormed(call.event) /\ ~DictionaryFails(call.event)) =>
                result.statusCode = 200 /\ result.validate_called
        /\ result.statusCode = 400 => ~result.validate_called
        /\ result.statusCode = 500 =>
                WellFormed(call.event) /\ DictionaryFails(call.event)

---------------------------------------------------------------------------
(* The decomposition fallback                                              *)

EveryScalarHasEntry(kanji) ==
    \A i \in 1..Len(kanji) : <<kanji[i]>> \in DOMAIN single_kanji(1)

PerScalarReadings(kanji) ==
    [i \in 1..Len(kanji) |-> single_kanji(1)[<<kanji[i]>>]]

\* C14: when every scalar has a single-kanji entry the fallback returns the
\* first min(10, N) elements of the Cartesian product of the per-scalar
\* reading lists, leftmost scalar varying slowest, each a concatenation of
\* one reading per scalar; when a scalar has no entry it returns nothing.
C14_FirstTenOfProduct ==
    dpc = "done" =>
        IF kanji_arg # <<>> /\ EveryScalarHasEntry(kanji_arg)
        THEN inferred = Take(Product(PerScalarReadings(kanji_arg)), 10)
        ELSE inferred = <<>>

---------------------------------------------------------------------------
(* The long-vowel post-pass                                                *)

Converted == cpc # "start"

\* the segments of the primary scan of text
Scanned == ScanFrom(hash_seed, katakana_to_hiragana(text), 1, <<>>)

\* the variants the rule gives the pair (prev, next); none if no pattern fits
PairVariants(prev, next) ==
    IF EndsWith(prev, LetterO) /\ next = <<LetterO>>
    THEN {prev, prev \o <<LetterO>>, DropLast(prev) \o <<LetterO, LetterH>>}
    ELSE IF (EndsWith(prev, LetterO) \/ EndsWith(prev, LetterU)) /\ next = <<LetterU>>
    THEN {prev, prev \o <<LetterU>>}
    ELSE IF EndsWith(prev, LetterI) /\ next = <<LetterI>>
    THEN {prev, prev \o <<LetterI>>}
    ELSE {}

IsLongVowelPair(segs, i) ==
    /\ i < Len(segs)
    /\ Len(segs[i]) = 1 /\ Len(segs[i + 1]) = 1
    /\ PairVariants(segs[i][1], segs[i + 1][1]) # {}

\* out, from its k-th segment on, is segs from its i-th on with every pair
\* replaced, left to right, without overlap
RECURSIVE PairsReplaced(_, _, _, _)
PairsReplaced(segs, i, out, k) ==
    IF i > Len(segs) THEN k = Len(out) + 1
    ELSE IF k > Len(out) THEN FALSE
    ELSE IF IsLongVowelPair(segs, i)
    THEN /\ ToSet(out[k]) = PairVariants(segs[i][1], segs[i + 1][1])
         /\ PairsReplaced(segs, i + 2, out, k + 1)
    ELSE /\ out[k] = segs[i]
         /\ PairsReplaced(segs, i + 1, out, k + 1)

\* C15: the post-pass replaces, left to right and without overlap, each pair
\* of adjacent singleton segments that fits a long-vowel pattern by the
\* pattern's variants and leaves every other segment unchanged; so おおの has
\* ONO, OONO and OHNO, さとう has SATO and SATOU, ゆう has YU and YUU.
C15_LongVowelPairs ==
    Converted =>
        /\ PairsReplaced(Scanned, 1, process_long_vowels(Scanned), 1)
        /\ text = OONO_T =>
              {<<79, 78, 79>>, <<79, 79, 78, 79>>, <<79, 72, 78, 79>>}
                  \subseteq ToSet(candidates)
        /\ text = SATOU_T =>
              {<<83, 65, 84, 79>>, <<83, 65, 84, 79, 85>>} \subseteq ToSet(candidates)
        /\ text = YUU_T =>
              {<<89, 85>>, <<89, 85, 85>>} \subseteq ToSet(candidates)

\* three O in a row: the first two are one pair, the third stays alone
C15_Witness ==
    /\ cpc = "converted"
    /\ text = <<12371, 12362, 12362>>
    /\ Len(Scanned) = 3
    /\ Len(process_long_vowels(Scanned)) = 2
    /\ <<75, 79, 72>> \in ToSet(process_long_vowels(Scanned)[1])
    /\ process_long_vowels(Scanned)[2] = <<<<LetterO>>>>

---------------------------------------------------------------------------
(* Sokuon and hatsuon in the primary scan                                  *)

Hiragana == katakana_to_hiragana(text)

Scan(hiragana) == ScanFrom(hash_seed, hiragana, 1, <<>>)

Preceding(hiragana, i) == SubSeq(hiragana, 1, i - 1)

Following(hiragana, i) == SubSeq(hiragana, i + 1, Len(hiragana))

\* the romaji of the syllable a string starts with: that of its two-scalar
\* key when one matches, else of its first scalar; <<>> when there is none
FirstSyllable(rest) ==
    IF Len(rest) >= 2 /\ SubSeq(rest, 1, 2) \in DOMAIN ROMAJI_TABLE
    THEN ROMAJI_TABLE[SubSeq(rest, 1, 2)]
    ELSE IF rest # <<>> /\ <<rest[1]>> \in DOMAIN ROMAJI_TABLE
    THEN ROMAJI_TABLE[<<rest[1]>>]
    ELSE <<>>

SokuonLetter(rest) ==
    IF FirstSyllable(rest) = <<>> THEN LetterT
    ELSE IF Len(FirstSyllable(rest)) >= 2 /\ SubSeq(FirstSyllable(rest), 1, 2) = <<67, 72>>
    THEN LetterT
    ELSE FirstSyllable(rest)[1]

PRow == {12401, 12404, 12407, 12410, 12413}    \* hiragana PA PI PU PE PO

\* C16: a sokuon at any position adds exactly one one-letter segment between
\* the scan of what precedes it and the scan of what follows it: T before a
\* syllable in CH, at the end and before a scalar without romaji, else the
\* first letter of the following syllable's romaji.  Every romanization of
\* a string with a sokuon before a P-row syllable contains PP.
C16_SokuonSegment ==
    Converted =>
        /\ \A i \in 1..Len(Hiragana) :
              Hiragana[i] = SOKUON =>
                  /\ Scan(Hiragana) =
                        Scan(Preceding(Hiragana, i))
                        \o <<<<<<SokuonLetter(Following(Hiragana, i))>>>>>>
                        \o Scan(Following(Hiragana, i))
                  /\ (i < Len(Hiragana) /\ Hiragana[i + 1] \in PRow) =>
                        \A k \in 1..Len(candidates) :
                            IsSubstring(<<80, 80>>, candidates[k])
        /\ text = IPPAI_T => <<73, 80, 80, 65, 73>> \in ToSet(candidates)

\* a sokuon before the yōon ちゃ: TCHA
C16_Witness ==
    /\ cpc = "converted"
    /\ text = <<12387, 12385, 12419>>
    /\ candidates = <<<<84, 67, 72, 65>>>>


UpTo(hiragana, i) == SubSeq(hiragana, 1, i)

HatsuonLetter(rest) ==
    IF FirstSyllable(rest) # <<>> /\ FirstSyllable(rest)[1] \in {66, 77, 80}
    THEN LetterM
    ELSE LetterN

\* C17: a hatsuon at any position adds the single segment M when the romaji
\* of the syllable after it begins with B, M or P and the single segment N
\* otherwise, also at the end and before a scalar without romaji; the scan
\* goes on with the scalar after it.  なんば has NAMBA and not NANBA.
C17_HatsuonSegment ==
    Converted =>
        /\ \A i \in 1..Len(Hiragana) :
              Hiragana[i] = HATSUON =>
                  /\ Scan(UpTo(Hiragana, i)) # <<>>
                  /\ Scan(Hiragana) =
                        DropLast(Scan(UpTo(Hiragana, i)))
                        \o <<<<<<HatsuonLetter(Following(Hiragana, i))>>>>>>
                        \o Scan(Following(Hiragana, i))
        /\ text = NAMBA_T =>
              /\ <<78, 65, 77, 66, 65>> \in ToSet(candidates)
              /\ <<78, 65, 78, 66, 65>> \notin ToSet(candidates)

\* なんば: the hatsuon before BA is M
C17_Witness ==
    /\ cpc = "converted"
    /\ text = NAMBA_T
    /\ candidates = <<<<78, 65, 77, 66, 65>>>>

---------------------------------------------------------------------------
(* The prolonged sound mark and the post-pass                              *)

\* the indices of the segments of the scan that a prolonged sound mark
\* extended: the mark at position i changed the last segment scanned so far
ExtendedByMark(hiragana) ==
    { Len(Scan(Preceding(hiragana, i))) :
        i \in { p \in 1..Len(hiragana) :
                  /\ hiragana[p] = CHOONPU
                  /\ Scan(UpTo(hiragana, p)) # Scan(Preceding(hiragana, p)) } }

\* the post-pass leaves segment j alone: it handles what precedes it and
\* what follows it separately
LeftAlone(segs, j) ==
    process_long_vowels(segs) =
        process_long_vowels(SubSeq(segs, 1, j - 1))
        \o <<segs[j]>>
        \o process_long_vowels(SubSeq(segs, j + 1, Len(segs)))

\* C18: a segment that a prolonged sound mark extended during the scan is
\* no member of a long-vowel pair of the post-pass and is in the final list
\* unchanged; in あーい the segment of あー is not merged with the い after it.
C18_MarkedSegmentLeftAlone ==
    Converted =>
        /\ \A j \in ExtendedByMark(Hiragana) :
              /\ j \in 1..Len(Scan(Hiragana))
              /\ Len(Scan(Hiragana)[j]) >= 2
              /\ LeftAlone(Scan(Hiragana), j)
        /\ text = AAI_T =>
              /\ Len(convert_to_segments(hash_seed, Hiragana)) = 2
              /\ ToSet(convert_to_segments(hash_seed, Hiragana)[1]) = {<<65>>, <<65, 65>>}
              /\ convert_to_segments(hash_seed, Hiragana)[2] = <<<<73>>>>

\* いーい: the marked segment {I, II} stands before an い it would pair with
C18_Witness ==
    /\ cpc = "converted"
    /\ text = <<12356, 12540, 12356>>
    /\ ExtendedByMark(Hiragana) = {1}
    /\ Len(convert_to_segments(hash_seed, Hiragana)) = 2
    /\ ToSet(candidates) = {<<73, 73>>, <<73, 73, 73>>}

---------------------------------------------------------------------------
(* Concurrent lookups of one shard                                         *)

\* thread t is between finding the key absent and storing the mapping
InLoadIfAbsent(t) == threads[t].pc \in {"exists", "open", "store"}

\* C19: the load-if-absent steps of concurrent get_readings calls that need
\* the same shard exclude each other: the shard file is read only once and
\* the calls see the same mapping.
C19_LoadIfAbsentExclusive ==
    threads # <<>> =>
        \A t \in Threads : \A u \in Threads \ {t} :
            ThreadKey(t) = ThreadKey(u) =>
                /\ ~(InLoadIfAbsent(t) /\ InLoadIfAbsent(u))
                /\ Parses(ThreadKey(t)) => fs_log[ThreadKey(t)].opens <= 1
                /\ (/\ threads[t].pc = "done" /\ threads[u].pc = "done"
                    /\ threads[t].result.kind = "readings"
                    /\ threads[u].result.kind = "readings"
                    /\ NeedsShard(1, threads[t].kanji, threads[t].is_surname)
                    /\ NeedsShard(1, threads[u].kanji, threads[u].is_surname))
                   => threads[t].seen = threads[u].seen

Compared == cpc = "compared"

\* the status _check_name decides for romaji r when `text` is the one
\* reading the dictionary gives and `cands` is what convert returned
StatusWith(r, cands) == Decide(r, <<text>>, TRUE, Dedup(cands)).status

SameOrder == other_candidates = candidates

SameStatus ==
    \A r \in ToSet(candidates) \cup ToSet(other_candidates) :
        StatusWith(r, candidates) = StatusWith(r, other_candidates)

\* C20: two calls of convert with the same kana string return the same
\* candidates in the same order, also when the product of the segment sizes
\* exceeds 10 and the list is clipped and truncated, so the status decided
\* for a romaji input does not depend on the order in which the variants of
\* a segment are enumerated.
C20_ConvertDeterministic ==
    Compared => SameOrder /\ SameStatus

===========================================================================
